---- MODULE Spec2Model ----
(***************************************************************************)
(* A model of src/loadbalancer/loadbalancer.py: UniversalLoadBalancer.     *)
(*                                                                         *)
(* Threads of the program and the specifications that run them:            *)
(*   Spec       the health monitor (health_check), the listener (run) and  *)
(*              one dispatcher thread per accepted connection              *)
(*              (handle_request, with get_next_server under the lock).     *)
(*   LiveLock   the threads of Spec up to the return of get_next_server,   *)
(*              with the fairness of the thread scheduler.                 *)
(*   SpecSel    get_next_server called repeatedly by one caller against a  *)
(*              healthy list that stays unchanged, from any cursor value.  *)
(*   SpecStart  the program from its start, the monitor running, with      *)
(*              connections that arrive one after the other.               *)
(*   SpecRelay  one established session: its two proxy_data threads and    *)
(*              the two remote peers (client, backend) as the environment. *)
(*   LiveRelay  SpecRelay with the fairness of the thread scheduler.       *)
(***************************************************************************)
EXTENDS Integers, Sequences, FiniteSets, TLC

(***************************************************************************)
(* Bounds of the model.                                                    *)
(***************************************************************************)
\* Client connections the listener accepts in a run.
NumSessions == 2

\* lb = UniversalLoadBalancer('0.0.0.0', 80, my_servers): the configured pool.
my_servers == << <<"127.0.0.1", 8001>>, <<"127.0.0.1", 8002>>, <<"127.0.0.1", 8003>> >>

\* Bytes each peer of a session sends in a run.
MaxBytes == 3

\* source.recv(4096): the most bytes one recv returns, scaled to MaxBytes.
RecvBuf == 2

\* Calls of get_next_server the selection harness makes, and the largest
\* cursor value it starts from.
MaxCalls == 7
MaxStart == 4

\* Connections followed in a run from the start up to their selections.
MaxConns == 4

\* Bytes the peers of two concurrent sessions send in all.
MaxPairBytes == 1

\* Calls of EmailService.send, which may overlap at their await.
MaxSends == 2

Sessions == 1..NumSessions

\* The two relay threads of a session, proxy_data(source, destination):
\* t1 = (client_conn, backend_conn) and t2 = (backend_conn, client_conn).
Dirs == { "t1", "t2" }
Sides == { "client", "backend" }
Src(d) == IF d = "t1" THEN "client" ELSE "backend"
Dst(d) == IF d = "t1" THEN "backend" ELSE "client"

\* The value get_next_server returns when no backend is available.
None == <<>>

\* Lock owners: the lock object itself stores none; the owner is kept to say
\* which thread is inside its "with self.lock" block.
Free == <<>>
HealthThread == <<"health_check">>
DispatchThread(s) == <<"handle_request", s>>

VARIABLES
    all_backends,      \* self.all_backends
    healthy_backends,  \* self.healthy_backends
    current,           \* self.current
    lock,              \* self.lock: Free or the thread inside "with self.lock"
    hpc,               \* health_check: position in the loop body
    alive,             \* health_check: the local list being built
    hidx,              \* health_check: index of the for loop in all_backends
    probe_sock,        \* health_check: the probe connection of the with block
    cycle_ok,          \* outcome of each probe of the cycle in progress
    pub_ok,            \* outcome of each probe of the cycle published last
    published,         \* whether a cycle has been published yet
    lpc,               \* run: position of the main thread
    accepted,          \* run: number of connections accepted so far
    spc,               \* handle_request: position of each dispatcher thread
    server_info,       \* handle_request: the local server_info
    client_conn,       \* state of each session's client socket
    backend_conn,      \* state of each session's backend socket
    rpc,               \* proxy_data: position of each relay thread
    data,              \* proxy_data: the local data of each relay thread
    reason,            \* proxy_data: how each relay thread left its loop
    peer,              \* the remote end of each socket: open, fin, rst (reset, its error not yet given to a call) or rst_seen
    inq,               \* bytes a peer has sent that recv has not returned yet
    sent,              \* every byte a peer has sent
    out,               \* every byte sendall has written to a destination
    returned,          \* results of the calls of the selection harness
    calls,             \* get_next_server calls each dispatcher has made
    attempts,          \* backend connects each dispatcher has attempted
    printed,           \* the reports printed: how many and about what
    logs,              \* EmailService: self._logs
    sent_count,        \* EmailService: self._sent_count
    failed_count,      \* EmailService: self._failed_count
    epc,               \* send: position of each call
    prepared_email,    \* send: the local prepared_email of a call at its await
    outcome,           \* what the caller of each send call got
    cause              \* the exception each failed call caught

vars == << all_backends, healthy_backends, current, lock, hpc, alive, hidx,
           probe_sock, cycle_ok, pub_ok, published, lpc, accepted, spc,
           server_info, client_conn, backend_conn, rpc, data, reason, peer, inq,
           sent, out, returned, calls, attempts, printed, logs, sent_count,
           failed_count, epc, prepared_email, outcome, cause >>

registryVars == << all_backends, healthy_backends, current, lock >>
monitorVars  == << hpc, alive, hidx, probe_sock, cycle_ok, pub_ok, published >>
listenerVars == << lpc, accepted >>
sessionVars  == << spc, server_info, client_conn, backend_conn >>
relayVars    == << rpc, data, reason >>
peerVars     == << peer, inq, sent, out >>
harnessVars  == << returned >>
countVars    == << calls, attempts, printed >>
emailVars    == << logs, sent_count, failed_count, epc, prepared_email, outcome, cause >>
lbVars       == << registryVars, monitorVars, listenerVars, sessionVars, relayVars,
                   peerVars, harnessVars, countVars >>

Range(f) == { f[i] : i \in DOMAIN f }

\* Mutant of Running: the health thread is not a daemon thread and outlives
\* the main thread.
RunningNonDaemon == TRUE

\* The process is alive: a failed bind ends the main thread, and with it the
\* process (the health thread is a daemon thread).
Running == lpc # "crashed"

Pending == [ i \in DOMAIN my_servers |-> "pending" ]

\* What a DOWN report names: server[1], the port of the backend.
Ports == { my_servers[i][2] : i \in DOMAIN my_servers }

\* Nothing printed yet. down counts the DOWN reports of the health cycle in
\* progress by the port they name, none and failed the reports of each
\* dispatcher, harness those of the calls of the selection harness.
NoReports ==
    [ down |-> [ p \in Ports |-> 0 ],
      none |-> [ s \in Sessions |-> 0 ],
      failed |-> [ s \in Sessions |-> 0 ],
      harness |-> 0 ]

(***************************************************************************)
(* EmailService: the values send works on. A body or template name that   *)
(* is None or empty is "": the code tests such fields with "not" only. A   *)
(* None where a str is reported (message_id, error, category of a log      *)
(* entry) is NoneStr.                                                      *)
(***************************************************************************)
SendCalls == 1..MaxSends

NoneStr == "None"

\* The templates the renderer finds: HTML ones, and those among them that
\* have a plain_text version.
HtmlTemplates == { "welcome.html", "invite_user.html" }
TextTemplates == { "welcome.html" }

\* The characters of a subject that _log_email keeps: subject[:100].
SubjectLogged == 100

\* A subject is the sequence of its characters. LongSubject is one character
\* longer than what the log keeps.
Welcome == << "W", "e", "l", "c", "o", "m", "e" >>
LongSubject == [ i \in 1..(SubjectLogged + 1) |-> "S" ]

\* seq[:n]
Slice(seq, n) == SubSeq(seq, 1, IF Len(seq) < n THEN Len(seq) ELSE n)

\* The EmailRequest objects given to send.
Requests ==
    [ to : { <<>>, << "user@example.com" >> },
      subject : { <<>>, Welcome, LongSubject },
      category : { NoneStr, "onboarding" },
      template_name : { "", "welcome.html", "invite_user.html", "missing.html" },
      html_body : { "", "<p>Hi</p>" },
      text_body : { "", "Hi" } ]

NoEmail ==
    [ to |-> <<>>, subject |-> <<>>, category |-> NoneStr, template_name |-> "",
      html_body |-> "", text_body |-> "" ]

\* An exception: its class and str(e). NoExc: nothing was raised.
Exc(type, msg) == [ type |-> type, msg |-> msg ]
NoExc == Exc("", "")

\* An EmailResponse, and the None that stands for none.
NoResponse == [ message_id |-> NoneStr, status |-> NoneStr, provider |-> NoneStr ]

\* What the caller of send has got: nothing yet, a returned response or a
\* raised exception.
NoOutcome == [ kind |-> "none", exc |-> NoExc, response |-> NoResponse ]
Returned(response) == [ kind |-> "return", exc |-> NoExc, response |-> response ]
Raised(e) == [ kind |-> "raise", exc |-> e, response |-> NoResponse ]

\* Jinja2Renderer._html_to_text: the tags are removed.
html_to_text(html) == IF html = "<p>Hi</p>" THEN "Hi" ELSE ""

\* Jinja2Renderer.render_html: the rendered template, or TemplateError; the
\* text of the TemplateNotFound it wraps is the name of the template.
render_html(template_name) ==
    IF template_name \in HtmlTemplates
      THEN [ exc |-> NoExc, value |-> "<p>Hi</p>" ]
      ELSE [ exc |-> Exc("TemplateError",
                         "Failed to render HTML template " \o template_name
                           \o ": " \o template_name),
             value |-> "" ]

\* Jinja2Renderer.render_text: the plain_text version, or the HTML one
\* converted to text.
render_text(template_name) ==
    IF template_name \in TextTemplates
      THEN [ exc |-> NoExc, value |-> "Hi" ]
      ELSE LET h == render_html(template_name) IN
             IF h.exc = NoExc
               THEN [ exc |-> NoExc, value |-> html_to_text(h.value) ]
               ELSE h

\* prepare_email: the exception it raises, if any, and the email object as
\* it leaves it (the object is changed in place).
prepare_email(email) ==
    IF email.template_name = ""
      THEN [ exc |-> NoExc,
             email |-> IF email.text_body = "" /\ email.html_body # ""
                         THEN [ email EXCEPT !.text_body = html_to_text(email.html_body) ]
                         ELSE email ]
      ELSE LET h == IF email.html_body = ""
                      THEN render_html(email.template_name)
                      ELSE [ exc |-> NoExc, value |-> email.html_body ]
           IN IF h.exc # NoExc
                THEN [ exc |-> h.exc, email |-> email ]
                ELSE LET e1 == [ email EXCEPT !.html_body = h.value ]
                         tx == render_text(email.template_name)
                     IN [ exc |-> NoExc,
                          email |-> IF e1.text_body # ""
                                      THEN e1
                                      ELSE [ e1 EXCEPT !.text_body =
                                               IF tx.exc = NoExc
                                                 THEN tx.value
                                                 ELSE html_to_text(e1.html_body) ] ]

\* _validate_email: the exception it raises, if any.
validate_email(email) ==
    IF email.to = <<>>
      THEN Exc("ValueError", "No recipients specified")
      ELSE IF email.subject = <<>>
             THEN Exc("ValueError", "No subject specified")
             ELSE IF email.html_body = "" /\ email.text_body = ""
                    THEN Exc("ValueError", "No email content specified")
                    ELSE NoExc

\* _log_email: the entry appended to self._logs, without its three clock
\* readings (timestamp, start_time, duration_seconds).
log_email(email, response, error) ==
    [ recipients |-> email.to,
      subject |-> Slice(email.subject, SubjectLogged),
      category |-> email.category,
      status |-> IF response # NoResponse THEN "sent" ELSE "failed",
      provider |-> "gmail",
      message_id |-> IF response # NoResponse THEN response.message_id ELSE NoneStr,
      error |-> error ]

\* EmailService.__init__
EmailService_init ==
    /\ logs = <<>>
    /\ sent_count = 0
    /\ failed_count = 0
    /\ epc = [ c \in SendCalls |-> "idle" ]
    /\ prepared_email = [ c \in SendCalls |-> NoEmail ]
    /\ outcome = [ c \in SendCalls |-> NoOutcome ]
    /\ cause = [ c \in SendCalls |-> NoExc ]

(***************************************************************************)
(* __init__                                                                *)
(***************************************************************************)
Init ==
    /\ all_backends = my_servers
    /\ healthy_backends = my_servers
    /\ current = 0
    /\ lock = Free
    /\ hpc = "probe"
    /\ alive = <<>>
    /\ hidx = 1
    /\ probe_sock = "none"
    /\ cycle_ok = Pending
    /\ pub_ok = Pending
    /\ published = FALSE
    /\ lpc = "bind"
    /\ accepted = 0
    /\ spc = [ s \in Sessions |-> "idle" ]
    /\ server_info = [ s \in Sessions |-> None ]
    /\ client_conn = [ s \in Sessions |-> "none" ]
    /\ backend_conn = [ s \in Sessions |-> "none" ]
    /\ rpc = [ s \in Sessions |-> [ d \in Dirs |-> "none" ] ]
    /\ data = [ s \in Sessions |-> [ d \in Dirs |-> <<>> ] ]
    /\ reason = [ s \in Sessions |-> [ d \in Dirs |-> "none" ] ]
    /\ peer = [ s \in Sessions |-> [ p \in Sides |-> "none" ] ]
    /\ inq = [ s \in Sessions |-> [ d \in Dirs |-> <<>> ] ]
    /\ sent = [ s \in Sessions |-> [ d \in Dirs |-> <<>> ] ]
    /\ out = [ s \in Sessions |-> [ d \in Dirs |-> <<>> ] ]
    /\ returned = <<>>
    /\ calls = [ s \in Sessions |-> 0 ]
    /\ attempts = [ s \in Sessions |-> 0 ]
    /\ printed = NoReports
    /\ EmailService_init

(***************************************************************************)
(* health_check                                                            *)
(***************************************************************************)
\* Mutant of health_check_connect: the report is printed after the try
\* statement, for every backend probed.
health_check_connect_prints_always ==
    /\ Running
    /\ hpc = "probe"
    /\ hidx <= Len(all_backends)
    /\ \E ok \in BOOLEAN :
         /\ cycle_ok' = [ cycle_ok EXCEPT ![hidx] = IF ok THEN "pass" ELSE "fail" ]
         /\ IF ok
              THEN /\ probe_sock' = "open"
                   /\ hpc' = "with"
                   /\ hidx' = hidx
                   /\ printed' = [ printed EXCEPT !.down[all_backends[hidx][2]] = @ + 1 ]
              ELSE /\ probe_sock' = "none"
                   /\ printed' = [ printed EXCEPT !.down[all_backends[hidx][2]] = @ + 1 ]
                   /\ hpc' = "probe"
                   /\ hidx' = hidx + 1
    /\ UNCHANGED << registryVars, alive, pub_ok, published, listenerVars, sessionVars,
                    relayVars, peerVars, harnessVars, calls, attempts, emailVars >>

\* Mutant of health_check_connect: a failed probe raises out of the loop.
health_check_connect_raises ==
    /\ Running
    /\ hpc = "probe"
    /\ hidx <= Len(all_backends)
    /\ \E ok \in BOOLEAN :
         /\ cycle_ok' = [ cycle_ok EXCEPT ![hidx] = IF ok THEN "pass" ELSE "fail" ]
         /\ IF ok
              THEN /\ probe_sock' = "open"
                   /\ hpc' = "with"
                   /\ hidx' = hidx
                   /\ UNCHANGED printed
              ELSE /\ probe_sock' = "none"
                   /\ printed' = [ printed EXCEPT !.down[all_backends[hidx][2]] = @ + 1 ]
                   /\ hpc' = "stopped"
                   /\ hidx' = hidx
    /\ UNCHANGED << registryVars, alive, pub_ok, published, listenerVars, sessionVars,
                    relayVars, peerVars, harnessVars, calls, attempts, emailVars >>

\* socket.create_connection(server, timeout=1) of the for loop: it either
\* connects (the with block is entered) or raises (the except prints DOWN).
health_check_connect ==
    /\ Running
    /\ hpc = "probe"
    /\ hidx <= Len(all_backends)
    /\ \E ok \in BOOLEAN :
         /\ cycle_ok' = [ cycle_ok EXCEPT ![hidx] = IF ok THEN "pass" ELSE "fail" ]
         /\ IF ok
              THEN /\ probe_sock' = "open"
                   /\ hpc' = "with"
                   /\ hidx' = hidx
                   /\ UNCHANGED printed
              ELSE /\ probe_sock' = "none"
                   /\ printed' = [ printed EXCEPT !.down[all_backends[hidx][2]] = @ + 1 ]
                   /\ hpc' = "probe"
                   /\ hidx' = hidx + 1
    /\ UNCHANGED << registryVars, alive, pub_ok, published, listenerVars, sessionVars,
                    relayVars, peerVars, harnessVars, calls, attempts, emailVars >>

\* Mutant of health_check_append: the list gets a rebuilt address, not the
\* configured entry.
health_check_append_rebuilt ==
    /\ Running
    /\ hpc = "with"
    /\ alive' = Append(alive, << "localhost", all_backends[hidx][2] >>)
    /\ probe_sock' = "closed"
    /\ hidx' = hidx + 1
    /\ hpc' = "probe"
    /\ UNCHANGED << registryVars, cycle_ok, pub_ok, published, listenerVars, sessionVars,
                    relayVars, peerVars, harnessVars, countVars, emailVars >>

\* Mutant of health_check_append: the probe connection is not used as a
\* context manager and stays open.
health_check_append_keeps_open ==
    /\ Running
    /\ hpc = "with"
    /\ alive' = Append(alive, all_backends[hidx])
    /\ probe_sock' = "open"
    /\ hidx' = hidx + 1
    /\ hpc' = "probe"
    /\ UNCHANGED << registryVars, cycle_ok, pub_ok, published, listenerVars, sessionVars,
                    relayVars, peerVars, harnessVars, countVars, emailVars >>

\* Mutant of health_check_append: the list is published entry by entry.
health_check_append_publishes ==
    /\ Running
    /\ hpc = "with"
    /\ alive' = Append(alive, all_backends[hidx])
    /\ healthy_backends' = alive'
    /\ probe_sock' = "closed"
    /\ hidx' = hidx + 1
    /\ hpc' = "probe"
    /\ UNCHANGED << all_backends, current, lock, cycle_ok, pub_ok, published, listenerVars, sessionVars,
                    relayVars, peerVars, harnessVars, countVars, emailVars >>

\* Mutant of health_check_append: the entry is inserted at the front.
health_check_append_front ==
    /\ Running
    /\ hpc = "with"
    /\ alive' = << all_backends[hidx] >> \o alive
    /\ probe_sock' = "closed"
    /\ hidx' = hidx + 1
    /\ hpc' = "probe"
    /\ UNCHANGED << registryVars, cycle_ok, pub_ok, published, listenerVars, sessionVars,
                    relayVars, peerVars, harnessVars, countVars, emailVars >>

\* The body of the with block, and its exit, which closes the probe socket.
health_check_append ==
    /\ Running
    /\ hpc = "with"
    /\ alive' = Append(alive, all_backends[hidx])
    /\ probe_sock' = "closed"
    /\ hidx' = hidx + 1
    /\ hpc' = "probe"
    /\ UNCHANGED << registryVars, cycle_ok, pub_ok, published, listenerVars, sessionVars,
                    relayVars, peerVars, harnessVars, countVars, emailVars >>

\* "with self.lock": the for loop is over, the thread waits for the lock.
health_check_acquire ==
    /\ Running
    /\ hpc = "probe"
    /\ hidx > Len(all_backends)
    /\ lock = Free
    /\ lock' = HealthThread
    /\ hpc' = "locked"
    /\ UNCHANGED << all_backends, healthy_backends, current, alive, hidx, probe_sock,
                    cycle_ok, pub_ok, published, listenerVars, sessionVars,
                    relayVars, peerVars, harnessVars, countVars, emailVars >>

\* Mutant of health_check_publish: the cursor is reset with the new list.
health_check_publish_resets_cursor ==
    /\ Running
    /\ hpc = "locked"
    /\ healthy_backends' = alive
    /\ lock' = Free
    /\ current' = 0
    /\ pub_ok' = cycle_ok
    /\ published' = TRUE
    /\ hpc' = "sleep"
    /\ UNCHANGED << all_backends, alive, hidx, probe_sock, cycle_ok,
                    listenerVars, sessionVars, relayVars, peerVars, harnessVars,
                    countVars, emailVars >>

\* self.healthy_backends = alive, and the end of the with block.
health_check_publish ==
    /\ Running
    /\ hpc = "locked"
    /\ healthy_backends' = alive
    /\ lock' = Free
    /\ pub_ok' = cycle_ok
    /\ published' = TRUE
    /\ hpc' = "sleep"
    /\ UNCHANGED << all_backends, current, alive, hidx, probe_sock, cycle_ok,
                    listenerVars, sessionVars, relayVars, peerVars, harnessVars,
                    countVars, emailVars >>

\* Mutant of health_check_sleep: the lock is taken at the top of the loop body,
\* before the probes.
health_check_sleep_takes_lock ==
    /\ Running
    /\ hpc = "sleep"
    /\ lock = Free
    /\ lock' = HealthThread
    /\ alive' = <<>>
    /\ hidx' = 1
    /\ probe_sock' = "none"
    /\ cycle_ok' = Pending
    /\ printed' = [ printed EXCEPT !.down = NoReports.down ]
    /\ hpc' = "probe"
    /\ UNCHANGED << all_backends, healthy_backends, current, pub_ok, published,
                    listenerVars, sessionVars, relayVars, peerVars, harnessVars,
                    calls, attempts, emailVars >>

\* Mutant of health_check_sleep: alive is created once, outside the loop.
health_check_sleep_keeps_alive ==
    /\ Running
    /\ hpc = "sleep"
    /\ alive' = alive
    /\ hidx' = 1
    /\ probe_sock' = "none"
    /\ cycle_ok' = Pending
    /\ printed' = [ printed EXCEPT !.down = NoReports.down ]
    /\ hpc' = "probe"
    /\ UNCHANGED << registryVars, pub_ok, published, listenerVars, sessionVars,
                    relayVars, peerVars, harnessVars, calls, attempts, emailVars >>

\* time.sleep(5) returns and the next iteration starts with alive = [].
health_check_sleep ==
    /\ Running
    /\ hpc = "sleep"
    /\ alive' = <<>>
    /\ hidx' = 1
    /\ probe_sock' = "none"
    /\ cycle_ok' = Pending
    /\ printed' = [ printed EXCEPT !.down = NoReports.down ]
    /\ hpc' = "probe"
    /\ UNCHANGED << registryVars, pub_ok, published, listenerVars, sessionVars,
                    relayVars, peerVars, harnessVars, calls, attempts, emailVars >>

(***************************************************************************)
(* run                                                                     *)
(***************************************************************************)
\* s.bind((self.address, self.port)); s.listen(100): bind may raise, which
\* ends run() and the process.
run_bind ==
    /\ lpc = "bind"
    /\ \E ok \in BOOLEAN : lpc' = IF ok THEN "accept" ELSE "crashed"
    /\ UNCHANGED << registryVars, monitorVars, accepted, sessionVars,
                    relayVars, peerVars, harnessVars, countVars, emailVars >>

\* Mutant of run_accept: the listener handles a connection to its end before
\* it accepts the next.
run_accept_joins ==
    /\ lpc = "accept"
    /\ accepted + 1 \in DOMAIN spc
    /\ \A s \in 1..accepted :
         \/ spc[s] \in { "rejected", "failed" }
         \/ \A d \in Dirs : rpc[s][d] = "done"
    /\ accepted' = accepted + 1
    /\ spc' = [ spc EXCEPT ![accepted + 1] = "select" ]
    /\ client_conn' = [ client_conn EXCEPT ![accepted + 1] = "open" ]
    /\ peer' = [ peer EXCEPT ![accepted + 1]["client"] = "open" ]
    /\ UNCHANGED << registryVars, monitorVars, lpc, server_info, backend_conn,
                    relayVars, inq, sent, out, harnessVars, countVars, emailVars >>

\* client_conn, addr = s.accept(); Thread(target=self.handle_request).start()
run_accept ==
    /\ lpc = "accept"
    /\ accepted + 1 \in DOMAIN spc
    /\ accepted' = accepted + 1
    /\ spc' = [ spc EXCEPT ![accepted + 1] = "select" ]
    /\ client_conn' = [ client_conn EXCEPT ![accepted + 1] = "open" ]
    /\ peer' = [ peer EXCEPT ![accepted + 1]["client"] = "open" ]
    /\ UNCHANGED << registryVars, monitorVars, lpc, server_info, backend_conn,
                    relayVars, inq, sent, out, harnessVars, countVars, emailVars >>

(***************************************************************************)
(* get_next_server                                                         *)
(***************************************************************************)
\* Mutant of get_next_server: the cursor indexes all_backends.
get_next_server_over_all(healthy, cur) ==
    IF Len(healthy) = 0
      THEN [ server |-> None, current |-> cur ]
      ELSE [ server |-> all_backends[(cur % Len(all_backends)) + 1], current |-> cur + 1 ]

\* Mutant of get_next_server: the cursor is not incremented.
get_next_server_no_increment(healthy, cur) ==
    IF Len(healthy) = 0
      THEN [ server |-> None, current |-> cur ]
      ELSE [ server |-> healthy[(cur % Len(healthy)) + 1], current |-> cur ]

\* Mutant of get_next_server: the cursor is advanced before the empty list is
\* noticed.
get_next_server_counts_rejects(healthy, cur) ==
    IF Len(healthy) = 0
      THEN [ server |-> None, current |-> cur + 1 ]
      ELSE [ server |-> healthy[(cur % Len(healthy)) + 1], current |-> cur + 1 ]

\* Mutant of get_next_server: the cursor is stored wrapped to the list size.
get_next_server_wraps(healthy, cur) ==
    IF Len(healthy) = 0
      THEN [ server |-> None, current |-> cur ]
      ELSE [ server |-> healthy[(cur % Len(healthy)) + 1], current |-> (cur + 1) % Len(healthy) ]

\* Mutant of get_next_server: the cursor is incremented before it is used.
get_next_server_increment_first(healthy, cur) ==
    IF Len(healthy) = 0
      THEN [ server |-> None, current |-> cur ]
      ELSE [ server |-> healthy[((cur + 1) % Len(healthy)) + 1], current |-> cur + 1 ]

\* The body of "with self.lock": the value returned and the cursor after it.
get_next_server(healthy, cur) ==
    IF Len(healthy) = 0
      THEN [ server |-> None, current |-> cur ]
      ELSE [ server |-> healthy[(cur % Len(healthy)) + 1], current |-> cur + 1 ]

\* "with self.lock" of get_next_server, called by handle_request.
get_next_server_acquire(s) ==
    /\ Running
    /\ spc[s] = "select"
    /\ lock = Free
    /\ lock' = DispatchThread(s)
    /\ spc' = [ spc EXCEPT ![s] = "locked" ]
    /\ calls' = [ calls EXCEPT ![s] = @ + 1 ]
    /\ UNCHANGED << all_backends, healthy_backends, current, monitorVars, listenerVars,
                    server_info, client_conn, backend_conn, relayVars, peerVars,
                    harnessVars, attempts, printed, emailVars >>

\* Mutant of get_next_server_return: the early return leaves the lock held.
get_next_server_return_keeps_lock(s) ==
    /\ Running
    /\ spc[s] = "locked"
    /\ LET r == get_next_server(healthy_backends, current) IN
         /\ server_info' = [ server_info EXCEPT ![s] = r.server ]
         /\ current' = r.current
         /\ lock' = IF r.server = None THEN lock ELSE Free
    /\ printed' = IF healthy_backends = <<>>
                    THEN [ printed EXCEPT !.none[s] = @ + 1 ]
                    ELSE printed
    /\ spc' = [ spc EXCEPT ![s] = "returned" ]
    /\ UNCHANGED << all_backends, healthy_backends, monitorVars, listenerVars,
                    client_conn, backend_conn, relayVars, peerVars, harnessVars,
                    calls, attempts, emailVars >>

\* The body, the return and the release of the lock.
get_next_server_return(s) ==
    /\ Running
    /\ spc[s] = "locked"
    /\ LET r == get_next_server(healthy_backends, current) IN
         /\ server_info' = [ server_info EXCEPT ![s] = r.server ]
         /\ current' = r.current
    /\ printed' = IF healthy_backends = <<>>
                    THEN [ printed EXCEPT !.none[s] = @ + 1 ]
                    ELSE printed
    /\ lock' = Free
    /\ spc' = [ spc EXCEPT ![s] = "returned" ]
    /\ UNCHANGED << all_backends, healthy_backends, monitorVars, listenerVars,
                    client_conn, backend_conn, relayVars, peerVars, harnessVars,
                    calls, attempts, emailVars >>

(***************************************************************************)
(* handle_request                                                          *)
(***************************************************************************)
\* Mutant of handle_request_reject: the handler returns without closing.
handle_request_reject_no_close(s) ==
    /\ Running
    /\ spc[s] = "returned"
    /\ server_info[s] = None
    /\ spc' = [ spc EXCEPT ![s] = "rejected" ]
    /\ UNCHANGED << registryVars, monitorVars, listenerVars, server_info, client_conn,
                    backend_conn, relayVars, peerVars, harnessVars, countVars, emailVars >>

\* if not server_info: client_conn.close(); return
handle_request_reject(s) ==
    /\ Running
    /\ spc[s] = "returned"
    /\ server_info[s] = None
    /\ client_conn' = [ client_conn EXCEPT ![s] = "closed" ]
    /\ spc' = [ spc EXCEPT ![s] = "rejected" ]
    /\ UNCHANGED << registryVars, monitorVars, listenerVars, server_info, backend_conn,
                    relayVars, peerVars, harnessVars, countVars, emailVars >>

\* backend_conn = socket.socket(...)
handle_request_socket(s) ==
    /\ Running
    /\ spc[s] = "returned"
    /\ server_info[s] # None
    /\ backend_conn' = [ backend_conn EXCEPT ![s] = "open" ]
    /\ spc' = [ spc EXCEPT ![s] = "connect" ]
    /\ UNCHANGED << registryVars, monitorVars, listenerVars, server_info, client_conn,
                    relayVars, peerVars, harnessVars, countVars, emailVars >>

\* backend_conn.connect(...) succeeds; t1.start(); t2.start(); the handler returns.
handle_request_connected(s) ==
    /\ Running
    /\ spc[s] = "connect"
    /\ backend_conn' = [ backend_conn EXCEPT ![s] = "connected" ]
    /\ peer' = [ peer EXCEPT ![s]["backend"] = "open" ]
    /\ rpc' = [ rpc EXCEPT ![s] = [ d \in Dirs |-> "recv" ] ]
    /\ spc' = [ spc EXCEPT ![s] = "relaying" ]
    /\ attempts' = [ attempts EXCEPT ![s] = @ + 1 ]
    /\ UNCHANGED << registryVars, monitorVars, listenerVars, server_info, client_conn,
                    data, reason, inq, sent, out, harnessVars, calls, printed, emailVars >>

\* Mutant of handle_request_failed: the handler takes the backend that refused
\* the connection out of the healthy list.
handle_request_failed_marks_down(s) ==
    /\ Running
    /\ spc[s] = "connect"
    /\ client_conn' = [ client_conn EXCEPT ![s] = "closed" ]
    /\ spc' = [ spc EXCEPT ![s] = "failed" ]
    /\ attempts' = [ attempts EXCEPT ![s] = @ + 1 ]
    /\ printed' = [ printed EXCEPT !.failed[s] = @ + 1 ]
    /\ healthy_backends' = LET Other(e) == e # server_info[s]
                           IN SelectSeq(healthy_backends, Other)
    /\ UNCHANGED << all_backends, current, lock, monitorVars, listenerVars,
                    server_info, backend_conn, relayVars, peerVars, harnessVars, calls,
                    emailVars >>

\* Mutant of handle_request_failed: the handler gives the selection back, so
\* that the next connection tries the same backend.
handle_request_failed_rolls_back(s) ==
    /\ Running
    /\ spc[s] = "connect"
    /\ client_conn' = [ client_conn EXCEPT ![s] = "closed" ]
    /\ spc' = [ spc EXCEPT ![s] = "failed" ]
    /\ attempts' = [ attempts EXCEPT ![s] = @ + 1 ]
    /\ printed' = [ printed EXCEPT !.failed[s] = @ + 1 ]
    /\ current' = current - 1
    /\ UNCHANGED << all_backends, healthy_backends, lock, monitorVars, listenerVars, server_info, backend_conn,
                    relayVars, peerVars, harnessVars, calls, emailVars >>

\* Mutant of handle_request_failed: after a failed connect the handler asks
\* for another backend.
handle_request_failed_retries(s) ==
    /\ Running
    /\ spc[s] = "connect"
    /\ backend_conn' = [ backend_conn EXCEPT ![s] = "none" ]
    /\ spc' = [ spc EXCEPT ![s] = "select" ]
    /\ attempts' = [ attempts EXCEPT ![s] = @ + 1 ]
    /\ printed' = [ printed EXCEPT !.failed[s] = @ + 1 ]
    /\ UNCHANGED << registryVars, monitorVars, listenerVars, server_info, client_conn,
                    relayVars, peerVars, harnessVars, calls, emailVars >>

\* backend_conn.connect(...) raises: the except prints and closes client_conn
\* only; the handler returns and backend_conn goes out of scope unclosed.
handle_request_failed(s) ==
    /\ Running
    /\ spc[s] = "connect"
    /\ client_conn' = [ client_conn EXCEPT ![s] = "closed" ]
    /\ spc' = [ spc EXCEPT ![s] = "failed" ]
    /\ attempts' = [ attempts EXCEPT ![s] = @ + 1 ]
    /\ printed' = [ printed EXCEPT !.failed[s] = @ + 1 ]
    /\ UNCHANGED << registryVars, monitorVars, listenerVars, server_info, backend_conn,
                    relayVars, peerVars, harnessVars, calls, emailVars >>

\* The runtime finalizes the unreferenced backend socket of a failed session
\* (at once under reference counting, at some later collection otherwise).
handle_request_finalize(s) ==
    /\ Running
    /\ spc[s] = "failed"
    /\ backend_conn[s] = "open"
    /\ backend_conn' = [ backend_conn EXCEPT ![s] = "finalized" ]
    /\ UNCHANGED << registryVars, monitorVars, listenerVars, spc, server_info, client_conn,
                    relayVars, peerVars, harnessVars, countVars, emailVars >>

(***************************************************************************)
(* The load balancer: monitor, listener and dispatchers.                   *)
(***************************************************************************)
Monitor ==
    \/ health_check_connect
    \/ health_check_append
    \/ health_check_acquire
    \/ health_check_publish
    \/ health_check_sleep

Listener ==
    \/ run_bind
    \/ run_accept

Dispatcher(s) ==
    \/ get_next_server_acquire(s)
    \/ get_next_server_return(s)
    \/ handle_request_reject(s)
    \/ handle_request_socket(s)
    \/ handle_request_connected(s)
    \/ handle_request_failed(s)
    \/ handle_request_finalize(s)

Next ==
    \/ Monitor
    \/ Listener
    \/ \E s \in Sessions : Dispatcher(s)

Spec == Init /\ [][Next]_vars

(***************************************************************************)
(* get_next_server against a healthy list that stays unchanged.            *)
(***************************************************************************)
\* The lists health_check can publish: it appends in the order of all_backends.
Sublist(S) ==
    LET Kept(e) == e \in S IN SelectSeq(my_servers, Kept)

HealthyLists == { Sublist(S) : S \in SUBSET Range(my_servers) }

InitSel ==
    /\ all_backends = my_servers
    /\ healthy_backends \in HealthyLists
    /\ current \in 0..MaxStart
    /\ lock = Free
    /\ hpc = "probe"
    /\ alive = <<>>
    /\ hidx = 1
    /\ probe_sock = "none"
    /\ cycle_ok = Pending
    /\ pub_ok = Pending
    /\ published = FALSE
    /\ lpc = "accept"
    /\ accepted = 0
    /\ spc = [ s \in Sessions |-> "idle" ]
    /\ server_info = [ s \in Sessions |-> None ]
    /\ client_conn = [ s \in Sessions |-> "none" ]
    /\ backend_conn = [ s \in Sessions |-> "none" ]
    /\ rpc = [ s \in Sessions |-> [ d \in Dirs |-> "none" ] ]
    /\ data = [ s \in Sessions |-> [ d \in Dirs |-> <<>> ] ]
    /\ reason = [ s \in Sessions |-> [ d \in Dirs |-> "none" ] ]
    /\ peer = [ s \in Sessions |-> [ p \in Sides |-> "none" ] ]
    /\ inq = [ s \in Sessions |-> [ d \in Dirs |-> <<>> ] ]
    /\ sent = [ s \in Sessions |-> [ d \in Dirs |-> <<>> ] ]
    /\ out = [ s \in Sessions |-> [ d \in Dirs |-> <<>> ] ]
    /\ returned = <<>>
    /\ calls = [ s \in Sessions |-> 0 ]
    /\ attempts = [ s \in Sessions |-> 0 ]
    /\ printed = NoReports
    /\ EmailService_init

\* One call of get_next_server by a single caller, from the acquisition of the
\* lock to its release; the result is recorded.
select_call ==
    /\ Len(returned) < MaxCalls
    /\ lock = Free
    /\ LET r == get_next_server(healthy_backends, current) IN
         /\ returned' = Append(returned, r.server)
         /\ current' = r.current
    /\ printed' = IF healthy_backends = <<>>
                    THEN [ printed EXCEPT !.harness = @ + 1 ]
                    ELSE printed
    /\ UNCHANGED << all_backends, healthy_backends, lock, monitorVars, listenerVars,
                    sessionVars, relayVars, peerVars, calls, attempts, emailVars >>

NextSel == select_call

SpecSel == InitSel /\ [][NextSel]_vars

\* The program from its start up to the selection of each connection: the
\* monitor, the listener and, for every accepted connection, the
\* get_next_server call of its handle_request. MaxConns connections are
\* followed.
Conns == 1..MaxConns

InitStart ==
    /\ all_backends = my_servers
    /\ healthy_backends = my_servers
    /\ current = 0
    /\ lock = Free
    /\ hpc = "probe"
    /\ alive = <<>>
    /\ hidx = 1
    /\ probe_sock = "none"
    /\ cycle_ok = Pending
    /\ pub_ok = Pending
    /\ published = FALSE
    /\ lpc = "bind"
    /\ accepted = 0
    /\ spc = [ s \in Conns |-> "idle" ]
    /\ server_info = [ s \in Conns |-> None ]
    /\ client_conn = [ s \in Conns |-> "none" ]
    /\ backend_conn = [ s \in Conns |-> "none" ]
    /\ rpc = [ s \in Conns |-> [ d \in Dirs |-> "none" ] ]
    /\ data = [ s \in Conns |-> [ d \in Dirs |-> <<>> ] ]
    /\ reason = [ s \in Conns |-> [ d \in Dirs |-> "none" ] ]
    /\ peer = [ s \in Conns |-> [ p \in Sides |-> "none" ] ]
    /\ inq = [ s \in Conns |-> [ d \in Dirs |-> <<>> ] ]
    /\ sent = [ s \in Conns |-> [ d \in Dirs |-> <<>> ] ]
    /\ out = [ s \in Conns |-> [ d \in Dirs |-> <<>> ] ]
    /\ returned = <<>>
    /\ calls = [ s \in Conns |-> 0 ]
    /\ attempts = [ s \in Conns |-> 0 ]
    /\ printed = [ NoReports EXCEPT !.none = [ s \in Conns |-> 0 ],
                                    !.failed = [ s \in Conns |-> 0 ] ]
    /\ EmailService_init

NextStart ==
    \/ Monitor
    \/ run_bind
    \/ run_accept
    \/ \E s \in Conns : get_next_server_acquire(s)
    \/ \E s \in Conns : get_next_server_return(s)

SpecStart == InitStart /\ [][NextStart]_vars

(***************************************************************************)
(* proxy_data: one relay thread, d, of session s.                          *)
(***************************************************************************)
Sock(s, side) == IF side = "client" THEN client_conn[s] ELSE backend_conn[s]

Min(a, b) == IF a < b THEN a ELSE b

\* What sendall has written once it raised: fewer bytes than it was given.
Prefixes(seq) == { SubSeq(seq, 1, k) : k \in 0..(Len(seq) - 1) }

\* data = source.recv(4096) is called: on a socket this process has closed it
\* raises at once, otherwise the thread waits in the system call.
proxy_data_recv(s, d) ==
    /\ Running
    /\ rpc[s][d] = "recv"
    /\ IF Sock(s, Src(d)) = "closed"
         THEN /\ rpc' = [ rpc EXCEPT ![s][d] = "finally" ]
              /\ reason' = [ reason EXCEPT ![s][d] = "read_error" ]
         ELSE /\ rpc' = [ rpc EXCEPT ![s][d] = "blocked" ]
              /\ UNCHANGED reason
    /\ UNCHANGED << registryVars, monitorVars, listenerVars, sessionVars, data,
                    peerVars, harnessVars, countVars, emailVars >>

\* recv returns between one byte and the buffer size of what has arrived.
proxy_data_recv_data(s, d) ==
    /\ Running
    /\ rpc[s][d] = "blocked"
    /\ inq[s][d] # <<>>
    /\ \E k \in 1..Min(RecvBuf, Len(inq[s][d])) :
         /\ data' = [ data EXCEPT ![s][d] = SubSeq(inq[s][d], 1, k) ]
         /\ inq' = [ inq EXCEPT ![s][d] = SubSeq(inq[s][d], k + 1, Len(inq[s][d])) ]
    /\ rpc' = [ rpc EXCEPT ![s][d] = "send" ]
    /\ UNCHANGED << registryVars, monitorVars, listenerVars, sessionVars, reason,
                    peer, sent, out, harnessVars, countVars, emailVars >>

\* recv returns b'' (all the peer's bytes were read and the peer has closed,
\* or it has reset the connection and an earlier call on the socket has
\* already been given that error): "if not data: break".
proxy_data_recv_eof(s, d) ==
    /\ Running
    /\ rpc[s][d] = "blocked"
    /\ inq[s][d] = <<>>
    /\ peer[s][Src(d)] \in { "fin", "rst_seen" }
    /\ data' = [ data EXCEPT ![s][d] = <<>> ]
    /\ rpc' = [ rpc EXCEPT ![s][d] = "finally" ]
    /\ reason' = [ reason EXCEPT ![s][d] = "eof" ]
    /\ UNCHANGED << registryVars, monitorVars, listenerVars, sessionVars, peerVars,
                    harnessVars, countVars, emailVars >>

\* recv raises (connection reset by the peer, and nothing that arrived before
\* the reset is left to read): "except Exception: pass". The error of a reset
\* is given to one call on the socket only, the first that meets it.
proxy_data_recv_error(s, d) ==
    /\ Running
    /\ rpc[s][d] = "blocked"
    /\ inq[s][d] = <<>>
    /\ peer[s][Src(d)] = "rst"
    /\ peer' = [ peer EXCEPT ![s][Src(d)] = "rst_seen" ]
    /\ rpc' = [ rpc EXCEPT ![s][d] = "finally" ]
    /\ reason' = [ reason EXCEPT ![s][d] = "read_error" ]
    /\ UNCHANGED << registryVars, monitorVars, listenerVars, sessionVars, data,
                    inq, sent, out, harnessVars, countVars, emailVars >>

\* The other relay thread closed the socket while this one waits in recv.
\* Where the platform wakes the waiting call, it raises; where it does not
\* (Linux), the call goes on waiting for the peer and this step never happens.
proxy_data_recv_interrupted(s, d) ==
    /\ Running
    /\ rpc[s][d] = "blocked"
    /\ Sock(s, Src(d)) = "closed"
    /\ rpc' = [ rpc EXCEPT ![s][d] = "finally" ]
    /\ reason' = [ reason EXCEPT ![s][d] = "read_error" ]
    /\ UNCHANGED << registryVars, monitorVars, listenerVars, sessionVars, data,
                    peerVars, harnessVars, countVars, emailVars >>

\* Mutant of proxy_data_sendall: send() in place of sendall(), which may write
\* only the first part of data.
proxy_data_sendall_partial(s, d) ==
    /\ Running
    /\ rpc[s][d] = "send"
    /\ Sock(s, Dst(d)) # "closed"
    /\ peer[s][Dst(d)] \in { "open", "fin" }
    /\ \E k \in 1..Len(data[s][d]) :
         out' = [ out EXCEPT ![s][d] = out[s][d] \o SubSeq(data[s][d], 1, k) ]
    /\ data' = [ data EXCEPT ![s][d] = <<>> ]
    /\ rpc' = [ rpc EXCEPT ![s][d] = "recv" ]
    /\ UNCHANGED << registryVars, monitorVars, listenerVars, sessionVars, reason,
                    peer, inq, sent, harnessVars, countVars, emailVars >>

\* destination.sendall(data) writes all of data and the loop goes on. The
\* local data is dead from here to the next recv and is cleared.
proxy_data_sendall(s, d) ==
    /\ Running
    /\ rpc[s][d] = "send"
    /\ Sock(s, Dst(d)) # "closed"
    /\ peer[s][Dst(d)] \in { "open", "fin" }
    /\ out' = [ out EXCEPT ![s][d] = out[s][d] \o data[s][d] ]
    /\ data' = [ data EXCEPT ![s][d] = <<>> ]
    /\ rpc' = [ rpc EXCEPT ![s][d] = "recv" ]
    /\ UNCHANGED << registryVars, monitorVars, listenerVars, sessionVars, reason,
                    peer, inq, sent, harnessVars, countVars, emailVars >>

\* destination.sendall(data) is called while the destination cannot take all
\* of data (its peer reads slowly): the thread waits in the system call.
proxy_data_sendall_wait(s, d) ==
    /\ Running
    /\ rpc[s][d] = "send"
    /\ Sock(s, Dst(d)) # "closed"
    /\ peer[s][Dst(d)] \in { "open", "fin" }
    /\ rpc' = [ rpc EXCEPT ![s][d] = "sending" ]
    /\ UNCHANGED << registryVars, monitorVars, listenerVars, sessionVars, data, reason,
                    peerVars, harnessVars, countVars, emailVars >>

\* The waiting sendall goes on and writes all of data. A close() of the
\* destination by the other relay thread in the meantime does not stop it:
\* the system call in progress keeps the connection (Linux).
proxy_data_sendall_resume(s, d) ==
    /\ Running
    /\ rpc[s][d] = "sending"
    /\ peer[s][Dst(d)] \in { "open", "fin" }
    /\ out' = [ out EXCEPT ![s][d] = out[s][d] \o data[s][d] ]
    /\ data' = [ data EXCEPT ![s][d] = <<>> ]
    /\ rpc' = [ rpc EXCEPT ![s][d] = "recv" ]
    /\ UNCHANGED << registryVars, monitorVars, listenerVars, sessionVars, reason,
                    peer, inq, sent, harnessVars, countVars, emailVars >>

\* destination.sendall(data) raises: on a socket this process has closed,
\* before anything is written; on a connection the peer has left, after a
\* part of data at most; and a waiting sendall, where the platform wakes it
\* when the socket is closed under it, after a part of data at most. A call
\* on the open socket of a connection the peer has reset is given the error
\* of the reset, if no call was given it before (it then raises all the same,
\* with a broken pipe).
proxy_data_sendall_error(s, d) ==
    /\ Running
    /\ \/ /\ rpc[s][d] = "send"
          /\ Sock(s, Dst(d)) = "closed"
          /\ UNCHANGED << out, peer >>
       \/ /\ rpc[s][d] = "send"
          /\ Sock(s, Dst(d)) # "closed"
          /\ peer[s][Dst(d)] \in { "fin", "rst", "rst_seen" }
          /\ \E w \in Prefixes(data[s][d]) :
               out' = [ out EXCEPT ![s][d] = out[s][d] \o w ]
          /\ peer' = [ peer EXCEPT ![s][Dst(d)] = IF @ = "rst" THEN "rst_seen" ELSE @ ]
       \/ /\ rpc[s][d] = "sending"
          /\ (Sock(s, Dst(d)) = "closed"
                \/ peer[s][Dst(d)] \in { "fin", "rst", "rst_seen" })
          /\ \E w \in Prefixes(data[s][d]) :
               out' = [ out EXCEPT ![s][d] = out[s][d] \o w ]
          /\ peer' = [ peer EXCEPT ![s][Dst(d)] = IF @ = "rst" THEN "rst_seen" ELSE @ ]
    /\ data' = [ data EXCEPT ![s][d] = <<>> ]
    /\ rpc' = [ rpc EXCEPT ![s][d] = "finally" ]
    /\ reason' = [ reason EXCEPT ![s][d] = "write_error" ]
    /\ UNCHANGED << registryVars, monitorVars, listenerVars, spc, server_info,
                    client_conn, backend_conn, inq, sent, harnessVars, countVars,
                    emailVars >>

\* Mutant of proxy_data_finally: the sockets are kept in attributes shared by
\* all sessions, so the close reaches every session's sockets.
proxy_data_finally_closes_all(s, d) ==
    /\ Running
    /\ rpc[s][d] = "finally"
    /\ client_conn' = [ u \in Sessions |-> IF client_conn[u] = "none" THEN "none" ELSE "closed" ]
    /\ backend_conn' = [ u \in Sessions |-> IF backend_conn[u] = "none" THEN "none" ELSE "closed" ]
    /\ rpc' = [ rpc EXCEPT ![s][d] = "done" ]
    /\ UNCHANGED << registryVars, monitorVars, listenerVars, spc, server_info, data,
                    reason, peerVars, harnessVars, countVars, emailVars >>

\* Mutant of proxy_data_finally: only source is closed.
proxy_data_finally_source_only(s, d) ==
    /\ Running
    /\ rpc[s][d] = "finally"
    /\ client_conn' = [ client_conn EXCEPT ![s] = IF Src(d) = "client" THEN "closed" ELSE @ ]
    /\ backend_conn' = [ backend_conn EXCEPT ![s] = IF Src(d) = "backend" THEN "closed" ELSE @ ]
    /\ rpc' = [ rpc EXCEPT ![s][d] = "done" ]
    /\ UNCHANGED << registryVars, monitorVars, listenerVars, spc, server_info, data,
                    reason, peerVars, harnessVars, countVars, emailVars >>

\* The socket objects of session s once the one on the given side is closed.
\* socket.close() on a socket object that is closed already does nothing.
Closed(s, side) ==
    [ client |-> IF side = "client" THEN [ client_conn EXCEPT ![s] = "closed" ]
                                    ELSE client_conn,
      backend |-> IF side = "backend" THEN [ backend_conn EXCEPT ![s] = "closed" ]
                                      ELSE backend_conn ]

\* finally: source.close(), the first statement of the block. The other
\* threads run between it and the second.
proxy_data_close_source(s, d) ==
    /\ Running
    /\ rpc[s][d] = "finally"
    /\ client_conn' = Closed(s, Src(d)).client
    /\ backend_conn' = Closed(s, Src(d)).backend
    /\ rpc' = [ rpc EXCEPT ![s][d] = "close_dst" ]
    /\ UNCHANGED << registryVars, monitorVars, listenerVars, spc, server_info, data,
                    reason, peerVars, harnessVars, countVars, emailVars >>

\* finally: destination.close(), after which the thread ends.
proxy_data_close_destination(s, d) ==
    /\ Running
    /\ rpc[s][d] = "close_dst"
    /\ client_conn' = Closed(s, Dst(d)).client
    /\ backend_conn' = Closed(s, Dst(d)).backend
    /\ rpc' = [ rpc EXCEPT ![s][d] = "done" ]
    /\ UNCHANGED << registryVars, monitorVars, listenerVars, spc, server_info, data,
                    reason, peerVars, harnessVars, countVars, emailVars >>

\* finally: source.close(); destination.close()
proxy_data_finally(s, d) ==
    \/ proxy_data_close_source(s, d)
    \/ proxy_data_close_destination(s, d)

(***************************************************************************)
(* The remote ends of a session's two connections.                         *)
(***************************************************************************)
\* The relay thread that reads what side p sends.
From(p) == IF p = "client" THEN "t1" ELSE "t2"

\* The peer sends one more byte; the bytes of a stream are numbered so that a
\* lost, repeated or reordered byte shows.
peer_send(s, p) ==
    /\ peer[s][p] = "open"
    /\ Len(sent[s][From(p)]) < MaxBytes
    /\ LET b == Len(sent[s][From(p)]) + 1 IN
         /\ sent' = [ sent EXCEPT ![s][From(p)] = Append(sent[s][From(p)], b) ]
         /\ inq' = [ inq EXCEPT ![s][From(p)] = Append(inq[s][From(p)], b) ]
    /\ UNCHANGED << registryVars, monitorVars, listenerVars, sessionVars, relayVars,
                    peer, out, harnessVars, countVars, emailVars >>

\* The peer closes its end in order: what it sent is still delivered.
peer_close(s, p) ==
    /\ peer[s][p] = "open"
    /\ peer' = [ peer EXCEPT ![s][p] = "fin" ]
    /\ UNCHANGED << registryVars, monitorVars, listenerVars, sessionVars, relayVars,
                    inq, sent, out, harnessVars, countVars, emailVars >>

\* The peer resets the connection: the bytes that arrived before the reset
\* stay in the receive queue, where recv still finds them.
peer_reset(s, p) ==
    /\ peer[s][p] = "open"
    /\ peer' = [ peer EXCEPT ![s][p] = "rst" ]
    /\ UNCHANGED << registryVars, monitorVars, listenerVars, sessionVars, relayVars,
                    inq, sent, out, harnessVars, countVars, emailVars >>

(***************************************************************************)
(* An established session: handle_request has connected and started t1 and *)
(* t2 for the first accepted connection.                                   *)
(***************************************************************************)
InitRelay ==
    /\ all_backends = my_servers
    /\ healthy_backends = my_servers
    /\ current = 1
    /\ lock = Free
    /\ hpc = "probe"
    /\ alive = <<>>
    /\ hidx = 1
    /\ probe_sock = "none"
    /\ cycle_ok = Pending
    /\ pub_ok = Pending
    /\ published = FALSE
    /\ lpc = "accept"
    /\ accepted = 1
    /\ spc = [ s \in Sessions |-> IF s = 1 THEN "relaying" ELSE "idle" ]
    /\ server_info = [ s \in Sessions |-> IF s = 1 THEN my_servers[1] ELSE None ]
    /\ client_conn = [ s \in Sessions |-> IF s = 1 THEN "open" ELSE "none" ]
    /\ backend_conn = [ s \in Sessions |-> IF s = 1 THEN "connected" ELSE "none" ]
    /\ rpc = [ s \in Sessions |-> [ d \in Dirs |-> IF s = 1 THEN "recv" ELSE "none" ] ]
    /\ data = [ s \in Sessions |-> [ d \in Dirs |-> <<>> ] ]
    /\ reason = [ s \in Sessions |-> [ d \in Dirs |-> "none" ] ]
    /\ peer = [ s \in Sessions |-> [ p \in Sides |-> IF s = 1 THEN "open" ELSE "none" ] ]
    /\ inq = [ s \in Sessions |-> [ d \in Dirs |-> <<>> ] ]
    /\ sent = [ s \in Sessions |-> [ d \in Dirs |-> <<>> ] ]
    /\ out = [ s \in Sessions |-> [ d \in Dirs |-> <<>> ] ]
    /\ returned = <<>>
    /\ calls = [ s \in Sessions |-> IF s = 1 THEN 1 ELSE 0 ]
    /\ attempts = [ s \in Sessions |-> IF s = 1 THEN 1 ELSE 0 ]
    /\ printed = NoReports
    /\ EmailService_init

Relay(s, d) ==
    \/ proxy_data_recv(s, d)
    \/ proxy_data_recv_data(s, d)
    \/ proxy_data_recv_eof(s, d)
    \/ proxy_data_recv_error(s, d)
    \/ proxy_data_recv_interrupted(s, d)
    \/ proxy_data_sendall(s, d)
    \/ proxy_data_sendall_wait(s, d)
    \/ proxy_data_sendall_resume(s, d)
    \/ proxy_data_sendall_error(s, d)
    \/ proxy_data_finally(s, d)

Peer(s, p) ==
    \/ peer_send(s, p)
    \/ peer_close(s, p)
    \/ peer_reset(s, p)

NextRelay ==
    \/ \E s \in Sessions, d \in Dirs : Relay(s, d)
    \/ \E s \in Sessions, p \in Sides : Peer(s, p)

SpecRelay == InitRelay /\ [][NextRelay]_vars

(***************************************************************************)
(* Two concurrent sessions: the first established as above, the second     *)
(* accepted after it, routed to the next backend and about to connect.     *)
(***************************************************************************)
InitPair ==
    /\ all_backends = my_servers
    /\ healthy_backends = my_servers
    /\ current = 2
    /\ lock = Free
    /\ hpc = "probe"
    /\ alive = <<>>
    /\ hidx = 1
    /\ probe_sock = "none"
    /\ cycle_ok = Pending
    /\ pub_ok = Pending
    /\ published = FALSE
    /\ lpc = "accept"
    /\ accepted = 2
    /\ spc = [ s \in Sessions |-> IF s = 1 THEN "relaying"
                                  ELSE IF s = 2 THEN "connect" ELSE "idle" ]
    /\ server_info = [ s \in Sessions |-> IF s <= 2 THEN my_servers[s] ELSE None ]
    /\ client_conn = [ s \in Sessions |-> IF s <= 2 THEN "open" ELSE "none" ]
    /\ backend_conn = [ s \in Sessions |-> IF s = 1 THEN "connected"
                                           ELSE IF s = 2 THEN "open" ELSE "none" ]
    /\ rpc = [ s \in Sessions |-> [ d \in Dirs |-> IF s = 1 THEN "recv" ELSE "none" ] ]
    /\ data = [ s \in Sessions |-> [ d \in Dirs |-> <<>> ] ]
    /\ reason = [ s \in Sessions |-> [ d \in Dirs |-> "none" ] ]
    /\ peer = [ s \in Sessions |->
                 [ p \in Sides |-> IF s = 1 \/ (s = 2 /\ p = "client")
                                     THEN "open" ELSE "none" ] ]
    /\ inq = [ s \in Sessions |-> [ d \in Dirs |-> <<>> ] ]
    /\ sent = [ s \in Sessions |-> [ d \in Dirs |-> <<>> ] ]
    /\ out = [ s \in Sessions |-> [ d \in Dirs |-> <<>> ] ]
    /\ returned = <<>>
    /\ calls = [ s \in Sessions |-> IF s <= 2 THEN 1 ELSE 0 ]
    /\ attempts = [ s \in Sessions |-> IF s = 1 THEN 1 ELSE 0 ]
    /\ printed = NoReports
    /\ EmailService_init

\* The bytes all peers have sent so far.
PairSent ==
    LET n(s) == Len(sent[s]["t1"]) + Len(sent[s]["t2"]) IN n(1) + n(2)

pair_send(s, p) ==
    /\ PairSent < MaxPairBytes
    /\ peer_send(s, p)

NextPair ==
    \/ \E s \in Sessions : \/ handle_request_connected(s)
                            \/ handle_request_failed(s)
                            \/ handle_request_finalize(s)
    \/ \E s \in Sessions, d \in Dirs : Relay(s, d)
    \/ \E s \in Sessions, p \in Sides : \/ pair_send(s, p)
                                         \/ peer_close(s, p)
                                         \/ peer_reset(s, p)

SpecPair == InitPair /\ [][NextPair]_vars

(***************************************************************************)
(* EmailService.send. A call runs without interruption up to its await of  *)
(* the provider and again from the provider's answer to its end; calls     *)
(* overlap at the await only.                                              *)
(***************************************************************************)
\* Mutant of send_except: the exception caught is raised again as it is.
send_except_reraises(c, email, e) ==
    /\ logs' = Append(logs, log_email(email, NoResponse, e.msg))
    /\ failed_count' = failed_count + 1
    /\ outcome' = [ outcome EXCEPT ![c] = Raised(e) ]
    /\ cause' = [ cause EXCEPT ![c] = e ]
    /\ epc' = [ epc EXCEPT ![c] = "done" ]
    /\ prepared_email' = [ prepared_email EXCEPT ![c] = NoEmail ]
    /\ UNCHANGED sent_count

\* except Exception as e: the failure is logged and counted and
\* EmailDeliveryError is raised in place of e.
send_except(c, email, e) ==
    /\ logs' = Append(logs, log_email(email, NoResponse, e.msg))
    /\ failed_count' = failed_count + 1
    /\ outcome' = [ outcome EXCEPT ![c] =
                      Raised(Exc("EmailDeliveryError", "Failed to send email: " \o e.msg)) ]
    /\ cause' = [ cause EXCEPT ![c] = e ]
    /\ epc' = [ epc EXCEPT ![c] = "done" ]
    /\ prepared_email' = [ prepared_email EXCEPT ![c] = NoEmail ]
    /\ UNCHANGED sent_count

\* send is called: prepare_email and _validate_email run; a failure of either
\* ends the call in the except branch, otherwise the call awaits the provider.
send_call(c) ==
    /\ epc[c] = "idle"
    /\ \A b \in 1..(c - 1) : epc[b] # "idle"
    /\ \E email \in Requests :
         LET p == prepare_email(email)
             v == validate_email(p.email)
         IN IF p.exc # NoExc
              THEN send_except(c, p.email, p.exc)
              ELSE IF v # NoExc
                     THEN send_except(c, p.email, v)
                     ELSE /\ epc' = [ epc EXCEPT ![c] = "await" ]
                          /\ prepared_email' = [ prepared_email EXCEPT ![c] = p.email ]
                          /\ UNCHANGED << logs, sent_count, failed_count, outcome, cause >>
    /\ UNCHANGED lbVars

\* The EmailResponse GmailProvider.send builds for a delivered message; the
\* Message-ID is unique to the message.
provider_response(c) ==
    [ message_id |-> "msg-" \o ToString(c), status |-> "sent", provider |-> "gmail" ]

\* provider.send returns its EmailResponse: the success is logged and counted
\* and the response is returned.
send_provider_returns(c) ==
    /\ epc[c] = "await"
    /\ LET response == provider_response(c)
       IN /\ logs' = Append(logs, log_email(prepared_email[c], response, NoneStr))
          /\ outcome' = [ outcome EXCEPT ![c] = Returned(response) ]
    /\ sent_count' = sent_count + 1
    /\ epc' = [ epc EXCEPT ![c] = "done" ]
    /\ prepared_email' = [ prepared_email EXCEPT ![c] = NoEmail ]
    /\ UNCHANGED << failed_count, cause, lbVars >>

\* provider.send raises (GmailProvider raises EmailDeliveryError for an SMTP
\* error and for any other one).
send_provider_raises(c) ==
    /\ epc[c] = "await"
    /\ \E msg \in { "SMTP error: refused", "Failed to send email: timed out" } :
         send_except(c, prepared_email[c], Exc("EmailDeliveryError", msg))
    /\ UNCHANGED lbVars

\* The task that runs send is cancelled while it awaits provider.send:
\* CancelledError is raised at the await. It is a BaseException, which neither
\* "except Exception" of GmailProvider.send nor that of send catches, so it
\* leaves send as it is: nothing is logged and nothing counted.
send_cancelled(c) ==
    /\ epc[c] = "await"
    /\ outcome' = [ outcome EXCEPT ![c] = Raised(Exc("CancelledError", "")) ]
    /\ cause' = [ cause EXCEPT ![c] = Exc("CancelledError", "") ]
    /\ epc' = [ epc EXCEPT ![c] = "done" ]
    /\ prepared_email' = [ prepared_email EXCEPT ![c] = NoEmail ]
    /\ UNCHANGED << logs, sent_count, failed_count, lbVars >>

NextEmail ==
    \E c \in SendCalls : \/ send_call(c)
                          \/ send_provider_returns(c)
                          \/ send_provider_raises(c)
                          \/ send_cancelled(c)

SpecEmail == Init /\ [][NextEmail]_vars

\* The calls of send that have ended, and the entries of the log by status.
Ended == { c \in SendCalls : epc[c] = "done" }
Entries(status) == { i \in DOMAIN logs : logs[i].status = status }

\* The exceptions "except Exception" catches in send.
Caught == { "TemplateError", "ValueError", "EmailDeliveryError" }

\* C28: a call of send that has ended has either raised an EmailDeliveryError,
\* a new exception whose message is "Failed to send email: " followed by the
\* text of the exception caught, or returned the response the provider built,
\* as it was; the caller never sees another exception type.
C28_FailuresBecomeEmailDeliveryError ==
    \A c \in Ended :
        /\ cause[c] # NoExc =>
              /\ outcome[c].kind = "raise"
              /\ outcome[c].exc.type = "EmailDeliveryError"
              /\ outcome[c].exc.msg = "Failed to send email: " \o cause[c].msg
              /\ outcome[c].exc # cause[c]
        /\ cause[c] = NoExc => outcome[c] = Returned(provider_response(c))

\* C28, amended: a call of send that ended after prepare_email,
\* _validate_email or provider.send raised an exception (TemplateError,
\* ValueError, the provider's EmailDeliveryError) has raised an
\* EmailDeliveryError, a new exception whose message is "Failed to send
\* email: " followed by the text of the exception caught, and so never a
\* TemplateError or a ValueError; a call whose provider returned has returned
\* the provider's response as it was; and a call cancelled while it awaited
\* the provider has raised the CancelledError itself, not wrapped. A call
\* ends in no other way.
C28_ExceptionsBecomeEmailDeliveryError ==
    \A c \in Ended :
        /\ cause[c].type \in Caught \cup { "CancelledError", "" }
        /\ cause[c].type \in Caught =>
              /\ outcome[c].kind = "raise"
              /\ outcome[c].exc.type = "EmailDeliveryError"
              /\ outcome[c].exc.msg = "Failed to send email: " \o cause[c].msg
              /\ outcome[c].exc # cause[c]
        /\ cause[c].type = "CancelledError" => outcome[c] = Raised(cause[c])
        /\ cause[c] = NoExc => outcome[c] = Returned(provider_response(c))

\* One call has ended after a template or validation failure, which reached
\* the caller as an EmailDeliveryError, and another was cancelled at its
\* await.
C28_Witness ==
    \E c, d \in Ended :
        /\ cause[c].type \in { "TemplateError", "ValueError" }
        /\ outcome[c].kind = "raise"
        /\ outcome[c].exc.type = "EmailDeliveryError"
        /\ cause[d].type = "CancelledError"

\* C29: the log has one entry for each call of send that has ended; its
\* length is _sent_count + _failed_count; _sent_count is the number of
\* entries with status "sent", which is the number of calls that returned,
\* and _failed_count the number with status "failed", which is the number of
\* calls that raised.
C29_LogMatchesCounters ==
    /\ Len(logs) = Cardinality(Ended)
    /\ Len(logs) = sent_count + failed_count
    /\ sent_count = Cardinality(Entries("sent"))
    /\ failed_count = Cardinality(Entries("failed"))
    /\ sent_count = Cardinality({ c \in Ended : outcome[c].kind = "return" })
    /\ failed_count = Cardinality({ c \in Ended : outcome[c].kind = "raise" })

(***************************************************************************)
(* Fairness. Every thread that can take a step is scheduled; a thread      *)
(* waiting in "with self.lock" gets the lock when it is released often     *)
(* enough (the monitor sleeps 5 s after each release). The remote peers    *)
(* and the outcome the platform gives a recv on a closed socket are not    *)
(* under the program's control and get no fairness.                        *)
(***************************************************************************)
\* The threads as far as the lock is concerned: the monitor, the listener and
\* each dispatcher up to the return of get_next_server. What a dispatcher does
\* after that return touches neither the lock nor what the lock guards.
NextLock ==
    \/ Monitor
    \/ Listener
    \/ \E s \in Sessions : get_next_server_acquire(s) \/ get_next_server_return(s)

SpecLock == Init /\ [][NextLock]_vars

LiveLock ==
    /\ SpecLock
    /\ WF_vars(Monitor)
    /\ \A s \in Sessions :
         /\ SF_vars(get_next_server_acquire(s))
         /\ WF_vars(get_next_server_return(s))

\* The steps a relay thread takes whenever it can: it runs on, a recv returns
\* what the connection holds for it (bytes, the end of the stream, the error
\* of a reset), a sendall that does not have to wait returns or raises, and a
\* waiting sendall raises once the peer has reset the connection. A recv on a
\* connection that holds nothing, and a sendall that waits for the peer to
\* read, end when the peer acts or not at all; a close() by the other thread
\* does not end them.
RelayStep(s, d) ==
    \/ proxy_data_recv(s, d)
    \/ proxy_data_recv_data(s, d)
    \/ proxy_data_recv_eof(s, d)
    \/ proxy_data_recv_error(s, d)
    \/ proxy_data_sendall(s, d)
    \/ (rpc[s][d] = "send" /\ proxy_data_sendall_error(s, d))
    \/ (/\ rpc[s][d] = "sending"
        /\ peer[s][Dst(d)] \in { "rst", "rst_seen" }
        /\ proxy_data_sendall_error(s, d))
    \/ proxy_data_finally(s, d)

LiveRelay ==
    /\ SpecRelay
    /\ \A s \in Sessions, d \in Dirs : WF_vars(RelayStep(s, d))

(***************************************************************************)
(* Properties.                                                             *)
(***************************************************************************)
\* The backends whose probe passed in a cycle with outcomes ok, and a set of
\* backends listed in configured order.
Passed(ok) == { all_backends[i] : i \in { j \in DOMAIN all_backends : ok[j] = "pass" } }

InOrder(S) ==
    LET Kept(e) == e \in S IN SelectSeq(all_backends, Kept)

\* A step in which get_next_server returns to the dispatcher of session s.
Returns(s) == spc[s] = "locked" /\ spc'[s] = "returned"

\* C1: in every reachable state each element of healthy_backends is an element
\* of all_backends (the healthy list may be empty, never foreign).
C1_HealthySubsetOfAll ==
    Range(healthy_backends) \subseteq Range(all_backends)

\* C1 witness: a later cycle is probing while a published list of one backend
\* serves an accepted connection.
C1_Witness ==
    /\ published
    /\ Len(healthy_backends) = 1
    /\ hpc = "with"
    /\ accepted > 0

\* C3: a session whose backend connect failed has its client socket closed and
\* its backend socket closed once the handler has returned.
C3_FailedConnectClosesBoth ==
    \A s \in Sessions :
        spc[s] = "failed" =>
            /\ client_conn[s] = "closed"
            /\ backend_conn[s] \in { "closed", "finalized" }

\* C6: a published list is exactly the backends whose probe passed in that
\* cycle, in order, and while some backend passed every get_next_server call
\* until the next publication returns one of them.
C6_FailedBackendExcluded ==
    /\ [](published => healthy_backends = InOrder(Passed(pub_ok)))
    /\ [][ \A s \in Sessions :
             (Returns(s) /\ published /\ Passed(pub_ok) # {})
                 => server_info'[s] \in Passed(pub_ok) ]_vars

\* C6 witness: B failed while A and C passed, [A, C] is published, and the two
\* connections were routed to A and to C.
C6_Witness ==
    /\ published
    /\ pub_ok = << "pass", "fail", "pass" >>
    /\ healthy_backends = << my_servers[1], my_servers[3] >>
    /\ current = 2
    /\ server_info[1] = my_servers[1]
    /\ server_info[2] = my_servers[3]

\* C7: when every probe of the published cycle failed the healthy list is
\* empty; a selection against an empty list yields None, and a session that
\* got None ends rejected with its client closed and no backend socket ever
\* created or connected.
C7_AllDownRejects ==
    /\ []((published /\ \A i \in DOMAIN pub_ok : pub_ok[i] = "fail")
            => healthy_backends = <<>>)
    /\ [][ \A s \in Sessions :
             (Returns(s) /\ healthy_backends = <<>>) => server_info'[s] = None ]_vars
    /\ [](\A s \in Sessions :
            /\ (spc[s] \in { "returned", "rejected" } /\ server_info[s] = None)
                  => backend_conn[s] = "none"
            /\ spc[s] = "rejected"
                  => (client_conn[s] = "closed" /\ server_info[s] = None)
            /\ spc[s] \in { "connect", "relaying", "failed" }
                  => server_info[s] # None)

\* C7 witness: every probe failed, the empty list is published and a
\* connection has been rejected.
C7_Witness ==
    /\ published
    /\ \A i \in DOMAIN pub_ok : pub_ok[i] = "fail"
    /\ healthy_backends = <<>>
    /\ \E s \in Sessions : spc[s] = "rejected" /\ client_conn[s] = "closed"

\* C10: no thread holds the lock while it does socket I/O: the monitor holds
\* it only after the last probe of the cycle, with no probe socket open, and a
\* dispatcher holds it only inside get_next_server, before it has a backend
\* socket.
C10_NoLockAcrossIO ==
    /\ lock = HealthThread
         => (hpc = "locked" /\ hidx > Len(all_backends) /\ probe_sock # "open")
    /\ hpc # "locked" => lock # HealthThread
    /\ \A s \in Sessions :
         /\ lock = DispatchThread(s) => (spc[s] = "locked" /\ backend_conn[s] = "none")
         /\ spc[s] # "locked" => lock # DispatchThread(s)

\* C10 witness: the monitor is inside its with-block while a dispatcher, which
\* has left get_next_server, is connecting to its backend.
C10_Witness ==
    /\ lock = HealthThread
    /\ \E s \in Sessions : spc[s] = "connect" /\ backend_conn[s] = "open"

\* C2: against an unchanged healthy list of N >= 1 backends, from any cursor
\* value, the results of successive calls repeat with period N, every N
\* consecutive results are the N healthy backends once each, and each result
\* is followed by its successor in the healthy list, cyclically.
C2_RoundRobinPeriodic ==
    LET n == Len(healthy_backends)
        m == Len(returned)
    IN  n >= 1 =>
          /\ \A i \in 1..m : i + n <= m => returned[i + n] = returned[i]
          /\ \A i \in 1..m :
               i + n - 1 <= m =>
                 { returned[j] : j \in i..(i + n - 1) } = Range(healthy_backends)
          /\ \A i \in 1..m :
               i + 1 <= m =>
                 \E k \in 1..n : /\ healthy_backends[k] = returned[i]
                                 /\ healthy_backends[(k % n) + 1] = returned[i + 1]

\* C2 witness: two full periods over three healthy backends, from a cursor
\* that did not start at a multiple of three.
C2_Witness ==
    /\ Len(healthy_backends) = 3
    /\ Len(returned) >= 6
    /\ returned[1] = healthy_backends[2]

\* C4: a relay thread that has terminated, for whatever reason and whichever
\* terminates first, has left both sockets of its session closed; between its
\* two closes its source is closed; a closed socket stays closed; and a thread
\* in its finally block goes through both closes to its end whatever the
\* other thread has closed already: its close of a closed socket changes
\* nothing and does not divert it.
C4_TerminatedRelayClosesBoth ==
    /\ [](\A s \in Sessions, d \in Dirs :
            /\ rpc[s][d] = "done" => (client_conn[s] = "closed" /\ backend_conn[s] = "closed")
            /\ rpc[s][d] = "close_dst" => Sock(s, Src(d)) = "closed")
    /\ [][ \A s \in Sessions :
             /\ client_conn[s] = "closed" => client_conn'[s] = "closed"
             /\ backend_conn[s] = "closed" => backend_conn'[s] = "closed" ]_vars
    /\ [][ \A s \in Sessions, d \in Dirs :
             /\ (rpc[s][d] = "finally" /\ rpc'[s][d] # "finally")
                  => (rpc'[s][d] = "close_dst" /\ reason'[s][d] = reason[s][d])
             /\ (rpc[s][d] = "close_dst" /\ rpc'[s][d] # "close_dst")
                  => (rpc'[s][d] = "done" /\ reason'[s][d] = reason[s][d])
             /\ rpc[s][d] = "done" => rpc'[s][d] = "done" ]_vars

\* C4 witness: t2 ended on a zero-length read and closed both sockets, then t1
\* ended on a write error and closed them again.
C4_Witness ==
    \E s \in Sessions :
        /\ rpc[s]["t2"] = "done" /\ reason[s]["t2"] = "eof"
        /\ rpc[s]["t1"] = "done" /\ reason[s]["t1"] = "write_error"
        /\ client_conn[s] = "closed" /\ backend_conn[s] = "closed"

IsPrefix(a, b) == Len(a) <= Len(b) /\ a = SubSeq(b, 1, Len(a))

\* C5: what a relay has written to its destination is always a prefix of what
\* its source sent (unmodified, in order); a relay ended by a zero-length read
\* has written exactly the bytes its source sent, and once it is done its
\* destination is closed.
C5_RelayDeliversExactly ==
    \A s \in Sessions, d \in Dirs :
        /\ IsPrefix(out[s][d], sent[s][d])
        /\ reason[s][d] = "eof" => out[s][d] = sent[s][d]
        /\ (reason[s][d] = "eof" /\ rpc[s][d] = "done") => Sock(s, Dst(d)) = "closed"

\* C5 witness: the client sent MaxBytes bytes, more than one recv returns, and
\* closed; t1 wrote them all, ended on the zero-length read and closed.
C5_Witness ==
    \E s \in Sessions :
        /\ Len(sent[s]["t1"]) = MaxBytes
        /\ MaxBytes > RecvBuf
        /\ out[s]["t1"] = sent[s]["t1"]
        /\ reason[s]["t1"] = "eof"
        /\ rpc[s]["t1"] = "done"
        /\ backend_conn[s] = "closed"

\* C8: a selection against an empty healthy list returns None and leaves the
\* cursor alone, and every call of get_next_server returns: a dispatcher
\* waiting for the lock is never left waiting.
C8_EmptyReturnsNoneAndCompletes ==
    /\ [][ \A s \in Sessions :
             (Returns(s) /\ healthy_backends = <<>>)
                 => (server_info'[s] = None /\ current' = current) ]_vars
    /\ \A s \in Sessions : (spc[s] = "select") ~> (spc[s] = "returned")

\* C8 witness: get_next_server has returned None to a dispatcher while the
\* healthy list is empty and another dispatcher waits for the lock.
C8_Witness ==
    /\ healthy_backends = <<>>
    /\ \E s, u \in Sessions :
         /\ spc[s] = "returned" /\ server_info[s] = None
         /\ spc[u] = "select"

\* C9: once a peer of an established session has closed or reset its
\* connection, both relay threads of the session terminate and both sockets
\* are closed.
C9_TeardownEndsBothRelays ==
    \A s \in Sessions :
        (spc[s] = "relaying" /\ \E p \in Sides : peer[s][p] # "open")
            ~> (/\ rpc[s]["t1"] = "done"
                /\ rpc[s]["t2"] = "done"
                /\ client_conn[s] = "closed"
                /\ backend_conn[s] = "closed")

\* C11: health results are published atomically. The healthy list is the
\* initial full list until the first publication and afterwards the complete
\* result of one finished cycle (every backend probed, the passed ones in
\* order), never the partly built list of the cycle in progress; the list
\* changes only in the single publishing step, taken under the lock after the
\* last probe, and what a selection returns is read under the lock from that
\* list.
C11_AtomicPublication ==
    /\ [](IF published
            THEN /\ \A i \in DOMAIN all_backends : pub_ok[i] # "pending"
                 /\ healthy_backends = InOrder(Passed(pub_ok))
            ELSE healthy_backends = all_backends)
    /\ [][ healthy_backends' # healthy_backends
             => /\ lock = HealthThread /\ lock' = Free
                /\ hidx > Len(all_backends)
                /\ \A i \in DOMAIN all_backends : cycle_ok[i] # "pending"
                /\ healthy_backends' = InOrder(Passed(cycle_ok)) ]_vars
    /\ [][ \A s \in Sessions :
             Returns(s)
               => /\ lock = DispatchThread(s)
                  /\ healthy_backends' = healthy_backends
                  /\ server_info'[s] \in Range(healthy_backends) \cup { None } ]_vars

\* C11 witness: a selection holds the lock while the monitor is in the middle
\* of a cycle whose partly built list differs from the published one.
C11_Witness ==
    /\ published
    /\ hpc = "with"
    /\ alive # <<>>
    /\ alive # healthy_backends
    /\ \E s \in Sessions : spc[s] = "locked"

\* Connection s selects in turn: every earlier connection has been given a
\* backend and no later one has made its selection yet.
InTurn(s) ==
    /\ \A u \in 1..(s - 1) : spc[u] = "returned" /\ server_info[u] # None
    /\ \A u \in (s + 1)..MaxConns : spc[u] \in { "idle", "select" }

\* C12: at startup the cursor is 0 and the healthy list is the configured list
\* in configured order, and it is that list until the first publication; the
\* k-th connection (from 0) that makes its selection in turn while the
\* healthy list is the full list is routed to backend k mod N.
C12_StartupRouting ==
    /\ [](accepted = 0 => current = 0)
    /\ [](~published => (healthy_backends = my_servers /\ all_backends = my_servers))
    /\ [][ \A s \in Conns :
             (Returns(s) /\ InTurn(s) /\ healthy_backends = all_backends)
               => /\ server_info'[s] = all_backends[((s - 1) % Len(all_backends)) + 1]
                  /\ current' = s ]_vars

\* C12 witness: four connections made their selections one after the other
\* before the first publication and were routed to A, B, C and A again.
C12_Witness ==
    /\ ~published
    /\ \A s \in Conns : spc[s] = "returned"
    /\ \A s \in 1..4 : server_info[s] = my_servers[((s - 1) % 3) + 1]

\* C13: every accepted connection causes exactly one get_next_server call and
\* at most one connect attempt: a session past the selection has called once,
\* a rejected session has made no connect attempt, a failed session has made
\* one and its client is closed, and neither ever moves again.
C13_OneSelectionOneAttempt ==
    /\ [](\A s \in Sessions :
            /\ calls[s] <= 1
            /\ attempts[s] <= 1
            /\ (spc[s] \in { "idle", "select" }) => (calls[s] = 0 /\ attempts[s] = 0)
            /\ (spc[s] \notin { "idle", "select" }) => calls[s] = 1
            /\ (spc[s] = "rejected") => attempts[s] = 0
            /\ (spc[s] = "failed") => (attempts[s] = 1 /\ client_conn[s] = "closed")
            /\ (spc[s] = "relaying") => attempts[s] = 1)
    /\ [][ \A s \in Sessions :
             (spc[s] \in { "rejected", "failed" })
               => /\ spc'[s] = spc[s]
                  /\ calls'[s] = calls[s]
                  /\ attempts'[s] = attempts[s]
                  /\ server_info'[s] = server_info[s] ]_vars

\* C13 witness: one session failed to connect after its single selection and
\* another was rejected after its single selection.
C13_Witness ==
    \E s, u \in Sessions :
        /\ spc[s] = "failed" /\ calls[s] = 1 /\ attempts[s] = 1
        /\ spc[u] = "rejected" /\ calls[u] = 1 /\ attempts[u] = 0

\* C14: a failed bind is fatal. run() never reaches the accept loop, no client
\* connection is accepted, and the process is over: from a state in which the
\* bind has failed no thread takes a step, the health thread (already started
\* by the constructor) included.
C14_BindFailureFatal ==
    /\ [](lpc = "crashed"
            => /\ accepted = 0
               /\ \A s \in Sessions : spc[s] = "idle" /\ client_conn[s] = "none")
    /\ [][ lpc # "crashed" ]_vars
    /\ [][ lpc = "bind" => lpc' \in { "bind", "accept", "crashed" } ]_vars
    /\ [][ accepted' # accepted => lpc = "accept" ]_vars

\* C14 witness: the bind has failed while the health thread was in the middle
\* of a cycle, with a probe connection open.
C14_Witness ==
    /\ lpc = "crashed"
    /\ hpc = "with"
    /\ probe_sock = "open"

\* C15: the cursor never decreases and is never reset: it always equals the
\* number of selections that have returned a backend, a selection that
\* returns a backend adds exactly one to it, and no other step (a health
\* publication that shrinks or grows the list included) changes it.
C15_CursorCountsSelections ==
    /\ [](current = Cardinality({ s \in Sessions :
                                    /\ spc[s] \in { "returned", "connect", "relaying",
                                                    "failed", "rejected" }
                                    /\ server_info[s] # None }))
    /\ [][ current' >= current ]_vars
    /\ [][ \A s \in Sessions :
             Returns(s)
               => current' = current + (IF server_info'[s] # None THEN 1 ELSE 0) ]_vars
    /\ [][ (\A s \in Sessions : ~Returns(s)) => current' = current ]_vars

\* C15 witness: two selections have returned a backend, the second one from a
\* published list of a single backend (the cursor is past the list's size).
C15_Witness ==
    /\ published
    /\ Len(healthy_backends) = 1
    /\ current = 2
    /\ \A s \in Sessions : spc[s] = "returned" /\ server_info[s] # None

\* C16: the list published at the end of a cycle contains a configured
\* backend if and only if the probe of that backend succeeded in that same
\* cycle; a failed probe excludes it and earlier cycles have no influence.
C16_PublishedIffProbePassed ==
    /\ [](published
            => \A i \in DOMAIN all_backends :
                 (all_backends[i] \in Range(healthy_backends)) <=> (pub_ok[i] = "pass"))
    /\ [][ (hpc = "locked" /\ hpc' = "sleep")
             => \A i \in DOMAIN all_backends :
                  /\ cycle_ok[i] \in { "pass", "fail" }
                  /\ (all_backends[i] \in Range(healthy_backends'))
                         <=> (cycle_ok[i] = "pass") ]_vars

\* C16 witness: a cycle in which only the first backend failed has been
\* published, and in the cycle now in progress the first backend has passed
\* and the second has failed.
C16_Witness ==
    /\ published
    /\ pub_ok = << "fail", "pass", "pass" >>
    /\ healthy_backends = << my_servers[2], my_servers[3] >>
    /\ cycle_ok = << "pass", "fail", "pending" >>

\* C17: the health monitor never stops. While the process runs the monitor is
\* always at a point of its loop from which it goes on, whatever the probes
\* gave; so under fair scheduling a completed cycle is published again and
\* again, and a backend whose probe has succeeded is eventually in the healthy
\* list. (The process itself ends only by a failed bind.)
C17_MonitorNeverStops ==
    /\ [](hpc \in { "probe", "with", "locked", "sleep" })
    /\ (<>[](lpc = "crashed")) \/ ([]<><<health_check_publish>>_vars)
    /\ \A i \in DOMAIN my_servers :
         (cycle_ok[i] = "pass")
            ~> (lpc = "crashed" \/ all_backends[i] \in Range(healthy_backends))

\* C17 witness: a cycle in which every probe failed has been published (the
\* healthy list is empty), the monitor is in its next cycle, and a backend
\* has recovered there.
C17_Witness ==
    /\ published
    /\ \A i \in DOMAIN all_backends : pub_ok[i] = "fail"
    /\ healthy_backends = <<>>
    /\ hpc = "with"
    /\ \E i \in DOMAIN all_backends : cycle_ok[i] = "pass"

\* C18: the listener never waits on a session. Whatever the other sessions
\* are doing, accept is possible whenever the listener is in its loop, a
\* dispatcher can always take its next step (it waits only for the lock, which
\* is held only by a thread about to release it while the process runs), and
\* a dispatcher that has started the two relay threads has ended.
C18_ListenerNeverWaits ==
    /\ (lpc = "accept" /\ accepted < NumSessions) => ENABLED run_accept
    /\ \A s \in Sessions :
         /\ (spc[s] = "select" /\ lock = Free) => ENABLED get_next_server_acquire(s)
         /\ (spc[s] = "locked") => ENABLED get_next_server_return(s)
         /\ (spc[s] = "returned")
               => ENABLED (handle_request_reject(s) \/ handle_request_socket(s))
         /\ (spc[s] = "connect")
               => (ENABLED handle_request_connected(s) /\ ENABLED handle_request_failed(s))
         /\ (spc[s] = "relaying") => ~ENABLED Dispatcher(s)
         /\ (lock = DispatchThread(s)) => spc[s] = "locked"
    /\ (Running /\ lock = HealthThread) => ENABLED health_check_publish

\* C18 witness: the first session is stalled in its backend connect while the
\* second, accepted later, has been selected and routed and its relays run.
C18_Witness ==
    /\ spc[1] = "connect"
    /\ spc[2] = "relaying"
    /\ server_info[2] # None
    /\ backend_conn[2] = "connected"

\* C19: healthy_backends is an order-preserving subsequence of all_backends:
\* its entries are configured backends, in configured order, none twice.
C19_HealthyInConfiguredOrder ==
    /\ healthy_backends = InOrder(Range(healthy_backends))
    /\ Cardinality(Range(healthy_backends)) = Len(healthy_backends)
    /\ \A i, j \in DOMAIN healthy_backends :
         i < j => \E a, b \in DOMAIN all_backends :
                    /\ a < b
                    /\ all_backends[a] = healthy_backends[i]
                    /\ all_backends[b] = healthy_backends[j]

\* C19 witness: a published list that skips the first configured backend and
\* keeps the other two in configured order.
C19_Witness ==
    /\ published
    /\ pub_ok[1] = "fail"
    /\ healthy_backends = << my_servers[2], my_servers[3] >>

\* C20: writers are separated. healthy_backends changes only in the monitor's
\* publishing step, and no monitor step changes the cursor; the cursor changes
\* only in a get_next_server return, which leaves healthy_backends alone;
\* all_backends never changes.
C20_WritersSeparated ==
    /\ [][ healthy_backends' # healthy_backends
             => (hpc = "locked" /\ hpc' = "sleep" /\ current' = current) ]_vars
    /\ [][ (hpc' # hpc \/ hidx' # hidx \/ alive' # alive) => current' = current ]_vars
    /\ [][ current' # current
             => (/\ \E s \in Sessions : Returns(s)
                 /\ healthy_backends' = healthy_backends) ]_vars
    /\ [][ \A s \in Sessions : Returns(s) => healthy_backends' = healthy_backends ]_vars
    /\ [][ all_backends' = all_backends ]_vars
    /\ [](all_backends = my_servers)

\* C20 witness: the cursor has advanced and a publication has replaced the
\* healthy list by a shorter one, the configured list being what it was.
C20_Witness ==
    /\ current > 0
    /\ published
    /\ healthy_backends # all_backends
    /\ all_backends = my_servers

\* What belongs to session s: its two sockets, its dispatcher and its two
\* relay threads.
SessionState(s) ==
    << client_conn[s], backend_conn[s], spc[s], server_info[s], rpc[s], data[s],
       reason[s], out[s] >>

\* A step of one of session u's own threads after the selection: every such
\* step (handle_request_connected, handle_request_failed,
\* handle_request_finalize and each step of proxy_data) moves the dispatcher
\* or a relay thread of u to its next position.
SessionStep(u) == spc'[u] # spc[u] \/ rpc'[u] # rpc[u]

\* C21: sessions are isolated. A step of a relay or of the dispatcher of one
\* session (a relay error, an end-of-stream, either close of a teardown and a
\* connect failure included) leaves the sockets, the dispatcher and the relay
\* state of every other session as they were, and leaves all_backends,
\* healthy_backends and the cursor as they were.
C21_SessionsIsolated ==
    [][ \A u \in Sessions :
          SessionStep(u)
            => /\ \A s \in Sessions \ { u } : SessionState(s)' = SessionState(s)
               /\ UNCHANGED << all_backends, healthy_backends, current >> ]_vars

\* C21 witness: the first session has been torn down after a read error and
\* the second, whose connect came later, still relays on two open sockets and
\* has forwarded a byte.
C21_Witness ==
    /\ rpc[1]["t1"] = "done" /\ rpc[1]["t2"] = "done"
    /\ \E d \in Dirs : reason[1][d] = "read_error"
    /\ client_conn[1] = "closed" /\ backend_conn[1] = "closed"
    /\ spc[2] = "relaying"
    /\ client_conn[2] = "open" /\ backend_conn[2] = "connected"
    /\ \E d \in Dirs : out[2][d] # <<>>

\* C22: a backend connect failure aborts only its session and changes nothing
\* in the registry: the step leaves all_backends, healthy_backends, the cursor
\* and the lock as they were, and a backend leaves healthy_backends only in
\* the monitor's publishing step, when its probe of the cycle failed; so the
\* backend that refused stays selectable until then.
C22_ConnectFailureLeavesRegistry ==
    /\ [][ \A s \in Sessions :
             (spc[s] = "connect" /\ spc'[s] = "failed")
               => /\ UNCHANGED registryVars
                  /\ client_conn'[s] = "closed"
                  /\ \A u \in Sessions \ { s } :
                       UNCHANGED << spc[u], client_conn[u], backend_conn[u] >> ]_vars
    /\ [][ \A i \in DOMAIN all_backends :
             (/\ all_backends[i] \in Range(healthy_backends)
              /\ all_backends[i] \notin Range(healthy_backends'))
               => (hpc = "locked" /\ hpc' = "sleep" /\ cycle_ok[i] = "fail") ]_vars

\* C22 witness: the first session's connect to a backend failed, the backend
\* is still in the healthy list, and the second session, selected later, has
\* been given the same backend.
C22_Witness ==
    /\ spc[1] = "failed"
    /\ server_info[1] \in Range(healthy_backends)
    /\ spc[2] = "connect"
    /\ server_info[2] = server_info[1]

\* One relay direction of session s has run its finally block.
TornDown(s) == \E e \in Dirs : rpc[s][e] = "done"

\* C23: once a relay direction has closed both sockets, no byte is forwarded
\* in either direction of the session any more.
C23_NoBytesAfterTeardown ==
    [][ \A s \in Sessions : TornDown(s) => out'[s] = out[s] ]_vars

\* C24: every probe connection is closed before the cycle's result is
\* published, whether the probe succeeded or failed: a probe socket is open
\* only inside the with block of its own probe, never between two probes,
\* while the monitor has the lock to publish, or while it sleeps.
C24_ProbeClosedBeforePublish ==
    /\ (probe_sock = "open") => (hpc = "with")
    /\ (hpc \in { "locked", "sleep" }) => (probe_sock \in { "none", "closed" })
    /\ (hpc = "with") => (probe_sock = "open" /\ cycle_ok[hidx] = "pass")

\* C24 witness: the monitor is about to publish a cycle with a failed probe
\* between two successful ones, and the socket of the last probe is closed.
C24_Witness ==
    /\ hpc = "locked"
    /\ cycle_ok = << "pass", "fail", "pass" >>
    /\ probe_sock = "closed"

\* C25: each routine failure produces its report exactly when it happens. In
\* every health cycle there is one DOWN report for each backend whose probe
\* failed, naming that backend (by its port), printed in the step in which the
\* probe fails, and none for a backend that passed; one NO HEALTHY BACKENDS
\* report for each selection made against an empty list, printed in that
\* selection; one connect-failure report for each session whose connect
\* failed, printed when it fails, and none for a session that connected.
C25_ReportsMatchFailures ==
    /\ [](/\ \A i, j \in DOMAIN all_backends :
               (all_backends[i][2] = all_backends[j][2]) => i = j
          /\ \A i \in DOMAIN all_backends :
               printed.down[all_backends[i][2]] = IF cycle_ok[i] = "fail" THEN 1 ELSE 0
          /\ \A s \in Sessions :
               /\ printed.none[s]
                    = IF spc[s] \in { "returned", "rejected" } /\ server_info[s] = None
                        THEN 1 ELSE 0
               /\ printed.failed[s] = IF spc[s] = "failed" THEN 1 ELSE 0)
    /\ [][ /\ \A i \in DOMAIN all_backends :
                (printed'.down[all_backends[i][2]] > printed.down[all_backends[i][2]])
                   <=> (cycle_ok[i] = "pending" /\ cycle_ok'[i] = "fail")
           /\ \A s \in Sessions :
                /\ (printed'.none[s] > printed.none[s])
                      <=> (Returns(s) /\ healthy_backends = <<>>)
                /\ (printed'.failed[s] > printed.failed[s])
                      <=> (spc[s] = "connect" /\ spc'[s] = "failed") ]_vars

\* C25 witness: in the cycle in progress the first backend passed and the
\* second failed (one DOWN report, naming port 8002); one session was rejected
\* against an empty list and one failed to connect, with one report each.
C25_Witness ==
    /\ cycle_ok = << "pass", "fail", "pending" >>
    /\ printed.down = [ p \in Ports |-> IF p = 8002 THEN 1 ELSE 0 ]
    /\ \E s, u \in Sessions :
         /\ spc[s] = "rejected" /\ printed.none[s] = 1 /\ printed.failed[s] = 0
         /\ spc[u] = "failed" /\ printed.failed[u] = 1 /\ printed.none[u] = 0

\* The connections whose selection returned a backend.
Served == { s \in Conns : spc[s] = "returned" /\ server_info[s] # None }

\* C26: a selection made while the healthy list is empty returns no backend
\* and leaves the cursor as it was; the cursor counts the selections that
\* returned a backend only, so the first selection after the backends recover
\* indexes the list with the value the last successful selection left.
C26_RejectKeepsCursor ==
    /\ [](current = Cardinality(Served))
    /\ [][ \A s \in Conns :
             (Returns(s) /\ healthy_backends = <<>>)
               => (server_info'[s] = None /\ current' = current) ]_vars
    /\ [][ \A s \in Conns :
             (Returns(s) /\ healthy_backends # <<>>)
               => server_info'[s] = healthy_backends[(Cardinality(Served)
                                                       % Len(healthy_backends)) + 1] ]_vars

\* C26 witness: a selection returned a backend, two were made against an
\* empty list, and one made after the recovery was served with cursor 1.
C26_Witness ==
    /\ \A s \in 1..4 : spc[s] = "returned"
    /\ server_info[1] = all_backends[1]
    /\ server_info[2] = None
    /\ server_info[3] = None
    /\ healthy_backends = all_backends
    /\ server_info[4] = all_backends[2]
    /\ current = 2

\* The sessions whose selection returned a backend.
Selected == { v \in Sessions : server_info[v] # None }

\* C27: a selection stays counted when its session then fails. The step in
\* which the connect fails leaves the cursor as it was and no later step takes
\* the increment back; a selection made once a session has failed indexes the
\* healthy list with a cursor that counts the failed session's selection, so
\* with the list unchanged the next connection gets the following backend,
\* never the one that has just failed.
C27_FailedSelectionStaysCounted ==
    /\ [][ \A s \in Sessions :
             (spc[s] = "connect" /\ spc'[s] = "failed")
               => (current' = current /\ server_info' = server_info) ]_vars
    /\ [][ \A s \in Sessions : (spc[s] = "failed") => current' >= current ]_vars
    /\ [](\A s \in Sessions :
            (spc[s] = "failed") => (s \in Selected /\ current = Cardinality(Selected)))
    /\ [][ \A s, u \in Sessions :
             (spc[s] = "failed" /\ Returns(u) /\ healthy_backends # <<>>)
               => server_info'[u]
                    = healthy_backends[(Cardinality(Selected) % Len(healthy_backends)) + 1] ]_vars
    /\ []((~published /\ NumSessions <= Len(all_backends))
            => \A s, u \in Selected :
                 (spc[s] = "failed" /\ u # s) => server_info[u] # server_info[s])

\* C27 witness: the first session was given the first backend and its connect
\* failed; the second has been given the second backend, with cursor 2.
C27_Witness ==
    /\ ~published
    /\ spc[1] = "failed" /\ server_info[1] = all_backends[1]
    /\ spc[2] = "connect" /\ server_info[2] = all_backends[2]
    /\ current = 2

====
